---- MODULE Spec2Model ----
(***************************************************************************)
(* Model of app.py, a Streamlit investment simulator.                      *)
(*                                                                         *)
(* The script is re-executed from top to bottom on every user event; the   *)
(* session state (user, cash, holdings, watchlist) survives between runs,  *)
(* widget values survive as long as the widget is drawn, and a button      *)
(* reads True only in the run its click triggered.                         *)
(*                                                                         *)
(* Money is counted in mills (1/1000 of a dollar), so that a price with a  *)
(* sub-cent fraction and round(x, 2) are both representable: 1 cent is     *)
(* Cent mills.  Amounts are exact; binary floating-point error is not      *)
(* modelled, except that round(x, 2) on an exact half-cent tie may return  *)
(* either neighbour (Python rounds the binary value, which lies on either  *)
(* side of the decimal tie).                                               *)
(***************************************************************************)
EXTENDS Integers, Sequences, FiniteSets, TLC

VARIABLES
    user,          \* st.session_state.user
    cash,          \* st.session_state.cash, in mills
    holdings,      \* st.session_state.holdings: insertion-ordered dict, as a sequence of entries
    watchlist,     \* st.session_state.watchlist
    page,          \* value of the sidebar radio "Navigate"
    widgets,       \* values the front end holds for the input widgets
    rendered,      \* buttons and inputs drawn by the last script run
    run,           \* the last run: button that read True and the handler's locals
    msg,           \* st.error / st.success / st.info texts (and an uncaught exception) of the last run
    holding_rows,  \* Dashboard: the portfolio table of the last run
    total_value,   \* Dashboard: the net worth of the last run
    buys,          \* executed purchases of the single-symbol buy scenario
    trades         \* number of executed trades

vars == <<user, cash, holdings, watchlist, page, widgets, rendered, run, msg,
          holding_rows, total_value, buys, trades>>

-----------------------------------------------------------------------------
(* Bounds *)
MaxBuyQty == 2     \* largest quantity typed into a buy number_input
MaxQty == 3        \* largest quantity held of one symbol
MaxTrades == 3     \* executed trades per session
MaxBuys == 3       \* purchases in the single-symbol buy scenario

(* Program constants *)
START_CASH == 10000000    \* 10000.0 dollars
Cent == 10                \* round(x, 2) keeps cents: 10 mills
NoData == -1              \* fetch_history / fetch_quote returned None
NoTotal == -2             \* total_value is not computed by this run

None == "<None>"

Symbols == {"TSLA", "AAPL"}
\* what the user can type into a symbol text_input
Texts == {"", "tsla", "AAPL"}
\* what the user can type into the watchlist text_input
WatchTexts == Texts \cup {"MSFT"}
\* what the user can type into the username text_input
Usernames == {"", " ", " amy "}
\* last Close of fetch_history, in mills: 1.004 and 5000 dollars
Closes == {1004, 5000000}
\* the closes of the single-symbol buy scenario: whole cents
CentCloses == {1000, 1010, 5000000}
Hist == Closes \cup {NoData}

\* str.upper()
Upper(t) == CASE t = "tsla" -> "TSLA" [] OTHER -> t

\* str.strip()
Strip(u) == CASE u = " " -> "" [] u = " amy " -> "amy" [] OTHER -> u

\* round(num / den, 2): the values it can return, in mills (num >= 0, den > 0)
Round2(num, den) ==
    LET lo == Cent * (num \div (Cent * den))
        r  == num - lo * den
    IN  IF 2 * r < Cent * den THEN {lo}
        ELSE IF 2 * r > Cent * den THEN {lo + Cent}
        ELSE {lo, lo + Cent}

-----------------------------------------------------------------------------
(* The holdings dict: {sym: {"qty": q, "avg_price": a}}, in insertion order *)

Entry(s, q, a) == [sym |-> s, qty |-> q, avg_price |-> a]

Keys(h) == [i \in 1..Len(h) |-> h[i].sym]

Has(h, s) == \E i \in 1..Len(h) : h[i].sym = s

Get(h, s) == h[CHOOSE i \in 1..Len(h) : h[i].sym = s]

\* h[s] = {...}: an existing key keeps its place, a new key goes last
Put(h, s, q, a) ==
    IF Has(h, s)
    THEN [i \in 1..Len(h) |-> IF h[i].sym = s THEN Entry(s, q, a) ELSE h[i]]
    ELSE Append(h, Entry(s, q, a))

\* del h[s]
Del(h, s) == SelectSeq(h, LAMBDA e : e.sym # s)

Range(seq) == {seq[i] : i \in 1..Len(seq)}

Outcome(c, h, m) == [cash |-> c, holdings |-> h, msg |-> m]

-----------------------------------------------------------------------------
\* the funds check compares cash with zero instead of the cost
InsufficientFunds_NoCost(c, cost) == c < 0

\* Buy page: `if st.session_state.cash < cost`
InsufficientFunds(c, cost) == c < cost

\* the funds check with its operands swapped
InsufficientCash_Swapped(c, cost) == cost < c

\* Search page: `if st.session_state.cash < cost`
InsufficientCash(c, cost) == c < cost

(* Buy page: the body of `if st.button("Buy")` *)
BuyHandler(c, h, buy_sym, buy_qty, hist) ==
    IF buy_sym = "" THEN {Outcome(c, h, "Enter a symbol.")}
    ELSE IF hist = NoData THEN {Outcome(c, h, "Symbol not found.")}
    ELSE
      LET price == hist
          cost  == price * buy_qty
      IN  IF InsufficientFunds(c, cost) THEN {Outcome(c, h, "Insufficient funds.")}
          ELSE IF Has(h, buy_sym)
          THEN LET cur == Get(h, buy_sym)
                   total_shares == cur.qty + buy_qty
               IN  { Outcome(c - cost, Put(h, buy_sym, total_shares, avg_price), "Bought") :
                       avg_price \in Round2(cur.avg_price * cur.qty + price * buy_qty,
                                            total_shares) }
          ELSE { Outcome(c - cost, Put(h, buy_sym, buy_qty, avg_price), "Bought") :
                   avg_price \in Round2(price, 1) }

\* the copy of the buy code that overwrites the average cost of an existing
\* position with the new price instead of weighting it
SearchBuyHandler_Overwrite(c, h, search_sym, buy_q, hist) ==
    IF hist = NoData THEN {Outcome(c, h, "Cannot fetch price to buy.")}
    ELSE
      LET price == hist
          cost  == price * buy_q
      IN  IF c < cost THEN {Outcome(c, h, "Insufficient cash.")}
          ELSE { Outcome(c - cost,
                         Put(h, search_sym,
                             (IF Has(h, search_sym) THEN Get(h, search_sym).qty ELSE 0) + buy_q,
                             avg_price),
                         "Bought") :
                   avg_price \in Round2(price, 1) }

(* Search page: the body of `if st.button("Buy from Search")` *)
SearchBuyHandler(c, h, search_sym, buy_q, hist) ==
    IF hist = NoData THEN {Outcome(c, h, "Cannot fetch price to buy.")}
    ELSE
      LET price == hist
          cost  == price * buy_q
      IN  IF InsufficientCash(c, cost) THEN {Outcome(c, h, "Insufficient cash.")}
          ELSE IF Has(h, search_sym)
          THEN LET cur == Get(h, search_sym)
                   total_shares == cur.qty + buy_q
               IN  { Outcome(c - cost, Put(h, search_sym, total_shares, avg_price), "Bought") :
                       avg_price \in Round2(cur.avg_price * cur.qty + price * buy_q,
                                            total_shares) }
          ELSE { Outcome(c - cost, Put(h, search_sym, buy_q, avg_price), "Bought") :
                   avg_price \in Round2(price, 1) }

\* the emptied position is kept
DropIfEmpty_Never(h, sel) == h

\* Sell page: `if holdings[sel]["qty"] == 0: del holdings[sel]`
DropIfEmpty(h, sel) == IF Get(h, sel).qty = 0 THEN Del(h, sel) ELSE h

\* the sell that also sets the average cost of what is left to the sale price
SellHandler_ResetsAvg(c, h, sel, sell_qty, hist) ==
    IF hist = NoData THEN {Outcome(c, h, "Could not fetch price.")}
    ELSE
      LET price == hist
          proceeds == price * sell_qty
          left == Get(h, sel).qty - sell_qty
          h1 == Put(h, sel, left, CHOOSE a \in Round2(price, 1) : TRUE)
      IN  {Outcome(c + proceeds, IF left = 0 THEN Del(h1, sel) ELSE h1, "Sold")}

(* Sell page: the body of `if st.button("Sell")` *)
SellHandler(c, h, sel, sell_qty, hist) ==
    IF hist = NoData THEN {Outcome(c, h, "Could not fetch price.")}
    ELSE
      LET price == hist
          proceeds == price * sell_qty
          left == Get(h, sel).qty - sell_qty
          h1 == Put(h, sel, left, Get(h, sel).avg_price)
      IN  {Outcome(c + proceeds, DropIfEmpty(h1, sel), "Sold")}

\* the quantity input admits one share more than is held
SellQtyRange_OffByOne(max_qty) == 1..(max_qty + 1)

\* number_input("Quantity", min_value=1, max_value=max_qty): the values it admits
SellQtyRange(max_qty) == 1..max_qty

-----------------------------------------------------------------------------
(* Watchlist *)
WOutcome(w, m) == [watchlist |-> w, msg |-> m]

\* the add without the membership test
SearchAddHandler_NoTest(w, search_sym) == WOutcome(Append(w, Upper(search_sym)), "Added")

(* Search page: the body of `if st.button("Add to Watchlist")` *)
SearchAddHandler(w, search_sym) ==
    LET s == Upper(search_sym)
    IN  IF s \notin Range(w) THEN WOutcome(Append(w, s), "Added")
        ELSE WOutcome(w, "Already in watchlist.")

(* Watchlist page: the body of `if st.button("Add to Watchlist")` *)
WatchAddHandler(w, add_sym) ==
    IF add_sym # "" /\ add_sym \notin Range(w) THEN WOutcome(Append(w, add_sym), "Added")
    ELSE IF add_sym \in Range(w) THEN WOutcome(w, "Already in watchlist.")
    ELSE WOutcome(w, "")

\* list.remove(s): drops the first occurrence
ListRemove(w, s) ==
    LET i == CHOOSE k \in 1..Len(w) : w[k] = s /\ \A j \in 1..(k - 1) : w[j] # s
    IN  SubSeq(w, 1, i - 1) \o SubSeq(w, i + 1, Len(w))

(* Watchlist page: the body of `if st.button(f"Remove {s}")` *)
WatchRemoveHandler(w, s) == WOutcome(ListRemove(w, s), "Removed")

-----------------------------------------------------------------------------
(* Dashboard *)

\* fetch_quote(sym)["price"]: round(price, 2) of the last close, or None
FetchQuote(close) == IF close = NoData THEN {NoData} ELSE Round2(close, 1)

\* last Close seen by fetch_quote: as fetch_history, or 0.004 dollars, which
\* rounds to a quote of 0.00
QuoteCloses == Hist \cup {4}

QuotePrices == UNION {FetchQuote(cl) : cl \in QuoteCloses}

\* the row that values a position without a quote at its average cost
DashRow_FallbackAvg(info, quote) ==
    LET cur_price == quote
        truthy == cur_price # NoData /\ cur_price # 0
    IN  [Symbol |-> info.sym, Qty |-> info.qty, AvgPrice |-> info.avg_price,
         CurPrice |-> IF truthy THEN cur_price ELSE NoData,
         Value |-> IF truthy THEN cur_price * info.qty ELSE info.avg_price * info.qty]

\* one pass of `for sym, info in holdings.items()`
DashRow(info, quote) ==
    LET cur_price == quote
        truthy == cur_price # NoData /\ cur_price # 0
        value == IF truthy THEN CHOOSE v \in Round2(cur_price * info.qty, 1) : TRUE ELSE 0
    IN  [Symbol |-> info.sym, Qty |-> info.qty, AvgPrice |-> info.avg_price,
         CurPrice |-> IF truthy THEN cur_price ELSE NoData, Value |-> value]

\* holding_rows after the loop; quotes[sym] is what fetch_quote returns for sym
DashRows(h, quotes) == [i \in 1..Len(h) |-> DashRow(h[i], quotes[h[i].sym])]

RECURSIVE SumValues(_)
SumValues(rows) ==
    IF rows = <<>> THEN 0 ELSE SumValues(SubSeq(rows, 1, Len(rows) - 1)) + rows[Len(rows)].Value

\* total_value after the loop
DashTotal(c, rows) == c + SumValues(rows)

-----------------------------------------------------------------------------
(* Search page: the body of `if st.button("Lookup")`.  `pressed` is the set  *)
(* of buttons that read True in the run, df_found whether the history for    *)
(* the chart was fetched, hist the history fetched for the purchase.  nested *)
(* tells whether the quick-action widgets were drawn.                        *)
POut(c, h, w, m, n) == [cash |-> c, holdings |-> h, watchlist |-> w, msg |-> m, nested |-> n]

Shown(m) == IF m = "" THEN <<>> ELSE <<m>>

SearchPage(c, h, w, search_sym, buy_q, pressed, df_found, hist) ==
    IF "Lookup" \notin pressed THEN {POut(c, h, w, <<>>, FALSE)}
    ELSE IF search_sym = "" THEN {POut(c, h, w, <<"Enter a symbol.">>, FALSE)}
    ELSE IF ~df_found
    THEN {POut(c, h, w, <<"Symbol not found or no data available.">>, FALSE)}
    ELSE
      LET add == IF "Add to Watchlist" \in pressed
                 THEN SearchAddHandler(w, search_sym)
                 ELSE WOutcome(w, "")
          buy == IF "Buy from Search" \in pressed
                 THEN SearchBuyHandler(c, h, search_sym, buy_q, hist)
                 ELSE {Outcome(c, h, "")}
      IN  { POut(o.cash, o.holdings, add.watchlist, Shown(add.msg) \o Shown(o.msg), TRUE) :
              o \in buy }

\* f"Remove {s}"
RemoveButton(s) ==
    CASE s = "TSLA" -> "Remove TSLA" [] s = "AAPL" -> "Remove AAPL"
      [] s = "MSFT" -> "Remove MSFT" [] OTHER -> "Remove"

(* Watchlist page: the body of the branch at `elif nav_choice == "Watchlist"` *)
WatchlistPage(w, add_sym, pressed) ==
    LET add == IF "Add to Watchlist" \in pressed
               THEN WatchAddHandler(w, add_sym)
               ELSE WOutcome(w, "")
        w1 == add.watchlist
        \* `for s in watchlist.copy()`: the first Remove button that reads True
        hit == {i \in 1..Len(w1) : RemoveButton(w1[i]) \in pressed}
    IN  IF hit = {} THEN WOutcome(w1, Shown(add.msg))
        ELSE LET s == w1[CHOOSE i \in hit : \A j \in hit : i <= j]
                 rem == WatchRemoveHandler(w1, s)
             IN  WOutcome(rem.watchlist, Shown(add.msg) \o Shown(rem.msg))

-----------------------------------------------------------------------------
(* State *)

Locals(b, s, q, p) == [button |-> b, sym |-> s, qty |-> q, price |-> p]

NoRun == Locals("", "", 0, NoData)

DefaultWidgets ==
    [username |-> "", buy_sym |-> "", buy_qty |-> 1,
     sel_options |-> <<>>, sel |-> "", max_qty |-> 0, sell_qty |-> 1,
     search_sym |-> "", buy_q |-> 1]

IsTrade(m) == \E i \in 1..Len(m) : m[i] \in {"Bought", "Sold"}

\* the run of the script with no user: the Login page, then the undefined
\* name of the last `elif` is evaluated
Init ==
    /\ user = None
    /\ cash = START_CASH
    /\ holdings = <<>>
    /\ watchlist = <<>>
    /\ page = "Login"
    /\ widgets = DefaultWidgets
    /\ rendered = {"username", "Login"}
    /\ run = NoRun
    /\ msg = <<"NameError">>
    /\ holding_rows = <<>>
    /\ total_value = NoTotal
    /\ buys = <<>>
    /\ trades = 0

\* what a run that is not the Dashboard leaves
Commit(c, h, w, m, r, p) ==
    /\ cash' = c
    /\ holdings' = h
    /\ watchlist' = w
    /\ msg' = m
    /\ run' = r
    /\ page' = p
    /\ holding_rows' = <<>>
    /\ total_value' = NoTotal
    /\ trades' = IF IsTrade(m) THEN trades + 1 ELSE trades

\* the quantity a buy of q would bring sym to stays within the model's bound
WithinQty(s, q) == (IF Has(holdings, s) THEN Get(holdings, s).qty ELSE 0) + q <= MaxQty

-----------------------------------------------------------------------------
(* Handler-level specification: every handler body is run with the inputs    *)
(* its widgets admit, as if its page and button had been reached.            *)

HInit ==
    /\ user = "amy"
    /\ cash = START_CASH
    /\ holdings = <<>>
    /\ watchlist = <<>>
    /\ page = "Dashboard"
    /\ widgets = DefaultWidgets
    /\ rendered = {}
    /\ run = NoRun
    /\ msg = <<>>
    /\ holding_rows = <<>>
    /\ total_value = NoTotal
    /\ buys = <<>>
    /\ trades = 0

HBuy ==
    \E t \in Texts, buy_qty \in 1..MaxBuyQty, hist \in Hist :
      LET buy_sym == Upper(t) IN
      /\ trades < MaxTrades
      /\ WithinQty(buy_sym, buy_qty)
      /\ \E o \in BuyHandler(cash, holdings, buy_sym, buy_qty, hist) :
           Commit(o.cash, o.holdings, watchlist, <<o.msg>>,
                  Locals("Buy", buy_sym, buy_qty, IF buy_sym = "" THEN NoData ELSE hist),
                  "Buy")
      /\ UNCHANGED <<user, widgets, rendered, buys>>

HSell ==
    \E i \in 1..Len(holdings), hist \in Hist :
      LET sel == holdings[i].sym
          max_qty == holdings[i].qty
      IN
      \E sell_qty \in SellQtyRange(max_qty) :
        /\ trades < MaxTrades
        /\ \E o \in SellHandler(cash, holdings, sel, sell_qty, hist) :
             Commit(o.cash, o.holdings, watchlist, <<o.msg>>,
                    Locals("Sell", sel, sell_qty, hist), "Sell")
        /\ UNCHANGED <<user, widgets, rendered, buys>>

HSearchBuy ==
    \E t \in Texts, buy_q \in 1..MaxBuyQty, df_found \in BOOLEAN, hist \in Hist :
      LET search_sym == Upper(t) IN
      /\ trades < MaxTrades
      /\ WithinQty(search_sym, buy_q)
      /\ \E o \in SearchPage(cash, holdings, watchlist, search_sym, buy_q,
                             {"Lookup", "Buy from Search"}, df_found, hist) :
           Commit(o.cash, o.holdings, o.watchlist, o.msg,
                  Locals("Buy from Search", search_sym, buy_q,
                         IF o.nested THEN hist ELSE NoData), "Search")
      /\ UNCHANGED <<user, widgets, rendered, buys>>

HSearchAdd ==
    \E t \in WatchTexts, df_found \in BOOLEAN :
      LET search_sym == Upper(t) IN
      /\ \E o \in SearchPage(cash, holdings, watchlist, search_sym, 1,
                             {"Lookup", "Add to Watchlist"}, df_found, NoData) :
           Commit(o.cash, o.holdings, o.watchlist, o.msg,
                  Locals("Add to Watchlist", search_sym, 0, NoData), "Search")
      /\ UNCHANGED <<user, widgets, rendered, buys>>

HWatchAdd ==
    \E t \in WatchTexts :
      LET add_sym == Upper(t)
          o == WatchlistPage(watchlist, add_sym, {"Add to Watchlist"})
      IN
      /\ Commit(cash, holdings, o.watchlist, o.msg,
                Locals("Add to Watchlist", add_sym, 0, NoData), "Watchlist")
      /\ UNCHANGED <<user, widgets, rendered, buys>>

HWatchRemove ==
    \E i \in 1..Len(watchlist) :
      LET s == watchlist[i]
          o == WatchlistPage(watchlist, "", {RemoveButton(s)})
      IN
      /\ Commit(cash, holdings, o.watchlist, o.msg,
                Locals(RemoveButton(s), s, 0, NoData), "Watchlist")
      /\ UNCHANGED <<user, widgets, rendered, buys>>

HDashboard ==
    \E quotes \in [Symbols -> QuotePrices] :
      /\ holding_rows' = DashRows(holdings, quotes)
      /\ total_value' = DashTotal(cash, holding_rows')
      /\ run' = NoRun
      /\ msg' = <<>>
      /\ page' = "Dashboard"
      /\ UNCHANGED <<user, cash, holdings, watchlist, widgets, rendered, buys, trades>>

LedgerNext ==
    \/ HBuy
    \/ HSell
    \/ HSearchBuy
    \/ HDashboard

WatchNext ==
    \/ HSearchAdd
    \/ HWatchAdd
    \/ HWatchRemove

\* buy, sell and valuation handlers
SpecLedger == HInit /\ [][LedgerNext]_vars

\* watchlist handlers
SpecWatchlist == HInit /\ [][WatchNext]_vars

-----------------------------------------------------------------------------
(* The application as the user drives it: every action is one user event and *)
(* the script run (with its st.rerun(), if any) that the event triggers.     *)

Pages == {"Dashboard", "Buy", "Sell", "Search", "Watchlist"}

\* drawn in every run of a logged-in user
Sidebar == {"Logout", "Navigate"}

\* the session state and the messages a run leaves
Session(c, h, w, m) ==
    /\ cash' = c
    /\ holdings' = h
    /\ watchlist' = w
    /\ msg' = m
    /\ trades' = IF IsTrade(m) THEN trades + 1 ELSE trades

\* a run that does not reach the Dashboard loop
NoDashboard == holding_rows' = <<>> /\ total_value' = NoTotal

\* Login page with no user; then no branch of the page dispatch matches and
\* `nav_choice` is evaluated
RunLogin(w, pressed) ==
    IF "Login" \in pressed /\ Strip(w.username) # ""
    THEN \* st.session_state.user = username.strip(); st.rerun(): the radio of a
         \* logged-in user starts on the Dashboard
         \E quotes \in [Symbols -> QuotePrices] :
           /\ user' = Strip(w.username)
           /\ page' = "Dashboard"
           /\ holding_rows' = DashRows(holdings, quotes)
           /\ total_value' = DashTotal(cash, holding_rows')
           /\ Session(cash, holdings, watchlist, <<>>)
           /\ widgets' = DefaultWidgets
           /\ rendered' = Sidebar
    ELSE /\ user' = None
         /\ page' = "Login"
         /\ NoDashboard
         /\ Session(cash, holdings, watchlist,
                    (IF "Login" \in pressed THEN <<"Please enter a valid username.">> ELSE <<>>)
                      \o <<"NameError">>)
         /\ widgets' = [DefaultWidgets EXCEPT !.username = w.username]
         /\ rendered' = {"username", "Login"}

RunDashboard ==
    \E quotes \in [Symbols -> QuotePrices] :
      /\ holding_rows' = DashRows(holdings, quotes)
      /\ total_value' = DashTotal(cash, holding_rows')
      /\ Session(cash, holdings, watchlist, <<>>)
      /\ widgets' = DefaultWidgets
      /\ rendered' = Sidebar

RunBuy(w, pressed) ==
    /\ NoDashboard
    /\ widgets' = [DefaultWidgets EXCEPT !.buy_sym = w.buy_sym, !.buy_qty = w.buy_qty]
    /\ rendered' = Sidebar \cup {"buy_sym", "buy_qty", "Buy"}
    /\ IF "Buy" \in pressed
       THEN \E hist \in Hist :
              \E o \in BuyHandler(cash, holdings, Upper(w.buy_sym), w.buy_qty, hist) :
                /\ Session(o.cash, o.holdings, watchlist, <<o.msg>>)
                /\ run' = Locals("Buy", Upper(w.buy_sym), w.buy_qty,
                                 IF w.buy_sym = "" THEN NoData ELSE hist)
       ELSE /\ Session(cash, holdings, watchlist, <<>>)
            /\ run' = NoRun

\* Sell page: a selectbox or number_input whose options or bounds differ from
\* those of the last run is a new widget and starts from its default
RunSell(w, pressed) ==
    /\ NoDashboard
    /\ IF holdings = <<>>
       THEN /\ Session(cash, holdings, watchlist, <<"No holdings to sell.">>)
            /\ widgets' = DefaultWidgets
            /\ rendered' = Sidebar
            /\ run' = Locals(IF "Sell" \in pressed THEN "Sell" ELSE "", "", 0, NoData)
       ELSE LET options == Keys(holdings)
                sel == IF w.sel_options = options THEN w.sel ELSE options[1]
                max_qty == Get(holdings, sel).qty
                sell_qty == IF w.max_qty = max_qty THEN w.sell_qty ELSE 1
            IN  /\ widgets' = [DefaultWidgets EXCEPT !.sel_options = options, !.sel = sel,
                                                      !.max_qty = max_qty, !.sell_qty = sell_qty]
                /\ rendered' = Sidebar \cup {"sel", "sell_qty", "Sell"}
                /\ IF "Sell" \in pressed
                   THEN \E hist \in Hist :
                          \E o \in SellHandler(cash, holdings, sel, sell_qty, hist) :
                            /\ Session(o.cash, o.holdings, watchlist, <<o.msg>>)
                            /\ run' = Locals("Sell", sel, sell_qty, hist)
                   ELSE /\ Session(cash, holdings, watchlist, <<>>)
                        /\ run' = NoRun

RunSearch(w, pressed, clicked) ==
    /\ NoDashboard
    /\ \E df_found \in BOOLEAN, hist \in Hist :
         \E o \in SearchPage(cash, holdings, watchlist, Upper(w.search_sym), w.buy_q,
                             pressed, df_found, hist) :
           /\ Session(o.cash, o.holdings, o.watchlist, o.msg)
           /\ widgets' = [DefaultWidgets EXCEPT !.search_sym = w.search_sym,
                                                 !.buy_q = IF o.nested THEN w.buy_q ELSE 1]
           /\ rendered' = Sidebar \cup {"search_sym", "Lookup"}
                            \cup (IF o.nested
                                  THEN {"Add to Watchlist", "buy_q", "Buy from Search"}
                                  ELSE {})
           /\ run' = IF clicked = "" THEN NoRun
                     ELSE Locals(clicked, Upper(w.search_sym),
                                 IF clicked = "Buy from Search" THEN w.buy_q ELSE 0,
                                 IF IsTrade(o.msg) THEN hist ELSE NoData)

\* page == "Watchlist" matches none of the branches before
\* `elif nav_choice == "Watchlist"`, and nav_choice is assigned nowhere
RunNameError ==
    /\ NoDashboard
    /\ Session(cash, holdings, watchlist, <<"NameError">>)
    /\ widgets' = DefaultWidgets
    /\ rendered' = Sidebar
    /\ run' = NoRun

\* one run of the script for a logged-in user on page p
Script(p, w, pressed, clicked) ==
    /\ page' = p
    /\ user' = user
    /\ buys' = buys
    /\ CASE p = "Dashboard" -> RunDashboard /\ run' = NoRun
         [] p = "Buy" -> RunBuy(w, pressed)
         [] p = "Sell" -> RunSell(w, pressed)
         [] p = "Search" -> RunSearch(w, pressed, clicked)
         [] OTHER -> RunNameError

TypeUsername ==
    \E u \in Usernames \ {widgets.username} :
      /\ "username" \in rendered
      /\ RunLogin([widgets EXCEPT !.username = u], {})
      /\ run' = NoRun
      /\ buys' = buys

ClickLogin ==
    /\ "Login" \in rendered
    /\ RunLogin(widgets, {"Login"})
    /\ run' = Locals("Login", "", 0, NoData)
    /\ buys' = buys

ClickLogout ==
    /\ "Logout" \in rendered
    /\ RunLogin(DefaultWidgets, {})
    /\ run' = Locals("Logout", "", 0, NoData)
    /\ buys' = buys

Navigate ==
    \E p \in Pages \ {page} :
      /\ "Navigate" \in rendered
      /\ Script(p, widgets, {}, "")

TypeBuySym ==
    \E t \in Texts \ {widgets.buy_sym} :
      /\ "buy_sym" \in rendered
      /\ Script(page, [widgets EXCEPT !.buy_sym = t], {}, "")

SetBuyQty ==
    \E n \in (1..MaxBuyQty) \ {widgets.buy_qty} :
      /\ "buy_qty" \in rendered
      /\ Script(page, [widgets EXCEPT !.buy_qty = n], {}, "")

ClickBuy ==
    /\ "Buy" \in rendered
    /\ trades < MaxTrades
    /\ WithinQty(Upper(widgets.buy_sym), widgets.buy_qty)
    /\ Script(page, widgets, {"Buy"}, "Buy")

SelectSel ==
    \E s \in Range(widgets.sel_options) \ {widgets.sel} :
      /\ "sel" \in rendered
      /\ Script(page, [widgets EXCEPT !.sel = s], {}, "")

SetSellQty ==
    \E n \in SellQtyRange(widgets.max_qty) \ {widgets.sell_qty} :
      /\ "sell_qty" \in rendered
      /\ Script(page, [widgets EXCEPT !.sell_qty = n], {}, "")

ClickSell ==
    /\ "Sell" \in rendered
    /\ trades < MaxTrades
    /\ Script(page, widgets, {"Sell"}, "Sell")

TypeSearchSym ==
    \E t \in WatchTexts \ {widgets.search_sym} :
      /\ "search_sym" \in rendered
      /\ Script(page, [widgets EXCEPT !.search_sym = t], {}, "")

ClickLookup ==
    /\ "Lookup" \in rendered
    /\ Script(page, widgets, {"Lookup"}, "Lookup")

SetBuyQ ==
    \E n \in (1..MaxBuyQty) \ {widgets.buy_q} :
      /\ "buy_q" \in rendered
      /\ Script(page, [widgets EXCEPT !.buy_q = n], {}, "")

ClickSearchAdd ==
    /\ "Add to Watchlist" \in rendered
    /\ Script(page, widgets, {"Add to Watchlist"}, "Add to Watchlist")

ClickBuyFromSearch ==
    /\ "Buy from Search" \in rendered
    /\ Script(page, widgets, {"Buy from Search"}, "Buy from Search")

Next ==
    \/ TypeUsername
    \/ ClickLogin
    \/ ClickLogout
    \/ Navigate
    \/ TypeBuySym
    \/ SetBuyQty
    \/ ClickBuy
    \/ SelectSel
    \/ SetSellQty
    \/ ClickSell
    \/ TypeSearchSym
    \/ ClickLookup
    \/ SetBuyQ
    \/ ClickSearchAdd
    \/ ClickBuyFromSearch

Spec == Init /\ [][Next]_vars

-----------------------------------------------------------------------------
(* Vocabulary of the properties *)

Abs(x) == IF x < 0 THEN 0 - x ELSE x

\* a is num / den rounded to 2 decimal places: a whole number of cents, at most half a cent away
NearestCent(a, num, den) == a % Cent = 0 /\ 2 * Abs(a * den - num) <= Cent * den

BuyButtons == {"Buy", "Buy from Search"}

\* this step is a buy attempt that fetched a price
BuyAttempt == run'.button \in BuyButtons /\ run'.price # NoData /\ run'.sym # ""

\* this step executed a buy / a sell
Bought == run'.button \in BuyButtons /\ msg' = <<"Bought">>
Sold == run'.button = "Sell" /\ msg' = <<"Sold">>

\* every position but that of s is the same before and after the step
OthersUnchanged(s) ==
    /\ \A i \in 1..Len(holdings) :
         holdings[i].sym # s =>
           Has(holdings', holdings[i].sym) /\ Get(holdings', holdings[i].sym) = holdings[i]
    /\ \A i \in 1..Len(holdings') : holdings'[i].sym # s => Has(holdings, holdings'[i].sym)

\* C1: a buy whose cost exceeds cash is rejected as insufficient funds, from the
\* Buy page and from the Search page, and leaves cash and holdings as they were.
C1_BuyRejected ==
    [][ (BuyAttempt /\ cash < run'.qty * run'.price)
          => /\ msg' \in {<<"Insufficient funds.">>, <<"Insufficient cash.">>}
             /\ cash' = cash
             /\ holdings' = holdings ]_vars

C1_Witness ==
    /\ run.button = "Buy"
    /\ msg = <<"Insufficient funds.">>
    /\ cash < run.qty * run.price
    /\ cash < START_CASH
    /\ holdings # <<>>

\* C2: cash is never negative, whatever buys and sells were executed.
C2_CashNonNegative == cash >= 0

C2_Witness ==
    /\ run.button = "Sell"
    /\ msg = <<"Sold">>
    /\ trades >= 2
    /\ cash < START_CASH

\* C3: a symbol is a key of holdings iff its quantity is > 0: a stored position
\* has a positive quantity, a symbol is stored once, a sell of the whole
\* position deletes the key, and the Dashboard has a row exactly per key.
C3_PositionIffPositive ==
    /\ [](\A i \in 1..Len(holdings) :
            /\ holdings[i].qty > 0
            /\ \A j \in 1..Len(holdings) : holdings[j].sym = holdings[i].sym => j = i)
    /\ [][ (Sold /\ Get(holdings, run'.sym).qty = run'.qty)
             => ~Has(holdings', run'.sym) ]_vars
    /\ [](total_value # NoTotal =>
            [i \in 1..Len(holding_rows) |-> holding_rows[i].Symbol] = Keys(holdings))

C3_Witness ==
    /\ run.button = "Sell"
    /\ msg = <<"Sold">>
    /\ ~Has(holdings, run.sym)
    /\ holdings # <<>>

\* C4: no executed sell subtracts more shares than are held when it is applied.
C4_NoOversell ==
    [][ Sold => /\ Has(holdings, run'.sym)
                /\ 1 <= run'.qty
                /\ run'.qty <= Get(holdings, run'.sym).qty ]_vars

C4_Witness ==
    /\ run.button = "Sell"
    /\ msg = <<"Sold">>
    /\ Has(holdings, run.sym)
    /\ run.qty > 1

\* the effect of an executed buy of q of s at p; NewAvg(a) is what the average
\* cost a of a position that did not exist is required to be
BuyEffect(NewAvg(_)) ==
    LET s == run'.sym
        q == run'.qty
        p == run'.price
    IN  /\ cash' = cash - q * p
        /\ Has(holdings', s)
        /\ IF Has(holdings, s)
           THEN LET old == Get(holdings, s)
                IN  /\ Get(holdings', s).qty = old.qty + q
                    /\ NearestCent(Get(holdings', s).avg_price,
                                   old.avg_price * old.qty + p * q, old.qty + q)
           ELSE /\ Get(holdings', s).qty = q
                /\ NewAvg(Get(holdings', s).avg_price)
        /\ OthersUnchanged(s)

\* C5 as stated: an executed buy debits q * p; a new position gets quantity q and
\* average cost p; an existing one gets Q + q and the weighted mean rounded to
\* 2 decimals; other positions are unchanged; both buy handlers do the same.
C5_AsStated == [][ Bought => BuyEffect(LAMBDA a : a = run'.price) ]_vars

\* C5 amended: as stated, but the average cost of a new position is p rounded
\* to 2 decimal places.
C5_BuyEffect == [][ Bought => BuyEffect(LAMBDA a : NearestCent(a, run'.price, 1)) ]_vars

C5_Witness ==
    /\ run.button = "Buy from Search"
    /\ msg = <<"Bought">>
    /\ Len(holdings) = 2
    /\ Get(holdings, run.sym).qty > run.qty
    /\ run.price % Cent # 0

\* C6: an executed sell credits q * p, takes q from the position and changes
\* nothing else; the average cost of a position that stays changes only in a
\* buy of that symbol.
C6_SellEffect ==
    /\ [][ Sold =>
             LET s == run'.sym
                 old == Get(holdings, s)
             IN  /\ cash' = cash + run'.qty * run'.price
                 /\ Has(holdings', s) <=> old.qty > run'.qty
                 /\ Has(holdings', s) =>
                      /\ Get(holdings', s).qty = old.qty - run'.qty
                      /\ Get(holdings', s).avg_price = old.avg_price
                 /\ OthersUnchanged(s) ]_vars
    /\ [][ \A i \in 1..Len(holdings) :
             (/\ Has(holdings', holdings[i].sym)
              /\ Get(holdings', holdings[i].sym).avg_price # holdings[i].avg_price)
               => (Bought /\ run'.sym = holdings[i].sym) ]_vars

C6_Witness ==
    /\ run.button = "Sell"
    /\ msg = <<"Sold">>
    /\ Has(holdings, run.sym)
    /\ Len(holdings) = 2
    /\ run.price # Get(holdings, run.sym).avg_price

\* market value of the rows: quantity times quoted price, 0 where no price is shown
RECURSIVE Worth(_)
Worth(rows) ==
    IF rows = <<>> THEN 0
    ELSE (IF Head(rows).CurPrice = NoData THEN 0 ELSE Head(rows).Qty * Head(rows).CurPrice)
         + Worth(Tail(rows))

\* C10: the Dashboard net worth is cash plus, per held symbol, quantity times
\* the quoted price, a symbol without a quote counting 0; computing it changes
\* neither cash nor holdings.
C10_NetWorth ==
    /\ [](total_value # NoTotal =>
            /\ total_value = cash + Worth(holding_rows)
            /\ Len(holding_rows) = Len(holdings)
            /\ \A i \in 1..Len(holdings) :
                 /\ holding_rows[i].Symbol = holdings[i].sym
                 /\ holding_rows[i].Qty = holdings[i].qty)
    /\ [][ total_value' # NoTotal => (cash' = cash /\ holdings' = holdings) ]_vars

C10_Witness ==
    /\ total_value # NoTotal
    /\ Len(holding_rows) = 2
    /\ holding_rows[1].CurPrice = NoData
    /\ holding_rows[2].CurPrice > 0
    /\ cash < START_CASH

-----------------------------------------------------------------------------
(* Buys of one symbol, starting from no position: the Buy page and the Search *)
(* page handlers applied to AAPL at whole-cent prices; buys records the       *)
(* executed purchases in order.                                               *)

BuyMore(o, q, p) ==
    /\ Len(buys) < MaxBuys
    /\ cash' = o.cash
    /\ holdings' = o.holdings
    /\ msg' = <<o.msg>>
    /\ buys' = IF o.msg = "Bought" THEN Append(buys, [qty |-> q, price |-> p]) ELSE buys
    /\ trades' = IF o.msg = "Bought" THEN trades + 1 ELSE trades
    /\ UNCHANGED <<user, watchlist, widgets, rendered, holding_rows, total_value>>

BBuy ==
    \E buy_qty \in 1..MaxBuyQty, hist \in CentCloses :
      /\ \E o \in BuyHandler(cash, holdings, "AAPL", buy_qty, hist) : BuyMore(o, buy_qty, hist)
      /\ run' = Locals("Buy", "AAPL", buy_qty, hist)
      /\ page' = "Buy"

BSearchBuy ==
    \E buy_q \in 1..MaxBuyQty, hist \in CentCloses :
      /\ \E o \in SearchBuyHandler(cash, holdings, "AAPL", buy_q, hist) : BuyMore(o, buy_q, hist)
      /\ run' = Locals("Buy from Search", "AAPL", buy_q, hist)
      /\ page' = "Search"

BuysNext ==
    \/ BBuy
    \/ BSearchBuy

SpecBuys == HInit /\ [][BuysNext]_vars

RECURSIVE SumCost(_)
SumCost(bs) == IF bs = <<>> THEN 0 ELSE Head(bs).qty * Head(bs).price + SumCost(Tail(bs))

RECURSIVE SumQty(_)
SumQty(bs) == IF bs = <<>> THEN 0 ELSE Head(bs).qty + SumQty(Tail(bs))

\* C7: after any sequence of executed buys of one symbol from no position, the
\* average cost is the volume-weighted mean of the purchase prices, sum of
\* q_i * p_i over sum of q_i, to 2 decimal places (a value that does not depend
\* on the order of the buys).
C7_VolumeWeightedMean ==
    buys # <<>> =>
      /\ Has(holdings, "AAPL")
      /\ Get(holdings, "AAPL").qty = SumQty(buys)
      /\ NearestCent(Get(holdings, "AAPL").avg_price, SumCost(buys), SumQty(buys))

-----------------------------------------------------------------------------
\* position of symbol s in list w
Pos(w, s) == CHOOSE i \in 1..Len(w) : w[i] = s

WatchAdd == run'.button = "Add to Watchlist"

\* C8: the watchlist holds a symbol at most once and keeps the symbols in the
\* order of their insertion: a step leaves the surviving symbols in the same
\* relative order and puts a new symbol last; adding a symbol that is present,
\* or an empty symbol, leaves the list as it is.
C8_WatchlistOrderedSet ==
    /\ [](\A i, j \in 1..Len(watchlist) : watchlist[i] = watchlist[j] => i = j)
    /\ []("" \notin Range(watchlist))
    /\ [][ /\ \A a, b \in Range(watchlist) \cap Range(watchlist') :
                Pos(watchlist, a) < Pos(watchlist, b) => Pos(watchlist', a) < Pos(watchlist', b)
           /\ \A n \in Range(watchlist') \ Range(watchlist) :
                /\ watchlist' = Append(watchlist, n)
                /\ WatchAdd /\ run'.sym = n ]_vars
    /\ [][ (WatchAdd /\ (run'.sym \in Range(watchlist) \/ run'.sym = ""))
             => watchlist' = watchlist ]_vars
    /\ [][ (WatchAdd /\ run'.sym # "" /\ run'.sym \notin Range(watchlist)
              /\ /\ msg' # <<"Enter a symbol.">>
                 /\ msg' # <<"Symbol not found or no data available.">>)
             => watchlist' = Append(watchlist, run'.sym) ]_vars

C8_Witness ==
    /\ Len(watchlist) = 2
    /\ run.button = "Add to Watchlist"
    /\ run.sym = watchlist[1]
    /\ msg = <<"Already in watchlist.">>
    /\ page = "Search"

-----------------------------------------------------------------------------
\* C9: the watchlist can be driven through the pages: a click on the Search
\* page's "Add to Watchlist" for TSLA, with the list empty, makes the list
\* [TSLA], and selecting the Watchlist page draws its add and remove widgets.
C9_WatchlistFlow ==
    /\ (run.button = "Add to Watchlist" /\ run.sym = "TSLA") => watchlist = <<"TSLA">>
    /\ page = "Watchlist" => "Add to Watchlist" \in rendered

====
